---- MODULE Spec2Model ----
(***************************************************************************)
(* Transactional execution contexts of the FastAPI / sqla-fancy-core       *)
(* example application: the engine's handles, the per-operation            *)
(* ScopeContext, atomic / non-atomic scopes, the executors ax, atx, nax,   *)
(* x, tx, the @transact / @connect adapters, the FastAPI dependencies of   *)
(* db.py and the create_book / get_stats handlers of the three apps.       *)
(***************************************************************************)
EXTENDS Integers, Sequences, FiniteSets, TLC

\* ------------------------------------------------------------------ bounds
NumOps == 2        \* logical operations running concurrently
MaxDepth == 3      \* nesting depth of scopes in a scripted operation
ScopeFuel == 5     \* engine calls of the scripted operation (SpecScope)
IsoFuel == 3       \* engine calls of the scripted operations together (SpecIso)
AtomicFuel == 3    \* engine calls of the scripted operation (SpecAtomic)

None == -1         \* Python's None for an integer-valued slot
NoHandle == 0      \* no connection (tr = None, empty ScopeContext)
Ops == 1 .. NumOps

VARIABLES
    db,        \* committed rows: [authors, books]
    seq,       \* autoincrement counters of the two tables
    handles,   \* every connection the engine has opened, by handle id
    ctx,       \* the ScopeContext store, one slot per logical operation
    stack,     \* per operation: the scope activations it is inside of
    err,       \* per operation: the exception propagating, or "none"
    prog,      \* per operation: what it runs
    pc,        \* per operation: its position
    tr,        \* per operation: the handler's tr / conn parameter
    payload,   \* per operation: schemas.CreateBook
    local,     \* per operation: the handler's locals and its result
    fuel       \* engine calls the scripted operations may still make

vars == <<db, seq, handles, ctx, stack, err, prog, pc, tr, payload, local, fuel>>

\* ------------------------------------------------------------------ tables
EmptyDb == [authors |-> {}, books |-> {}]

MaxOf(S) == IF S = {} THEN None ELSE CHOOSE m \in S : \A k \in S : k <= m

\* sa.insert(Author.Table).values(...).returning(Author.id)
InsertAuthor == [kind |-> "insert_author", arg |-> None]
\* sa.insert(Book.Table).values({Book.author_id: author_id}).returning(Book.id)
InsertBook(author_id) == [kind |-> "insert_book", arg |-> author_id]
CountAuthors == [kind |-> "count_authors", arg |-> None]
MaxAuthorId == [kind |-> "max_author_id", arg |-> None]
CountBooks == [kind |-> "count_books", arg |-> None]
MaxBookId == [kind |-> "max_book_id", arg |-> None]

IsInsert(q) == q.kind \in {"insert_author", "insert_book"}

\* ------------------------------------------------------------------ engine
NewHandle(kind, o) ==
    [state |-> "open", kind |-> kind, op |-> o, refs |-> 0, peak |-> 0,
     authors |-> {}, books |-> {}, ends |-> 0, shared |-> FALSE]

\* the id of the next handle operation o obtains from the engine
Fresh(hs, o) ==
    CHOOSE h \in {o + NumOps * k : k \in 0 .. Cardinality(DOMAIN hs)} :
        /\ h \notin DOMAIN hs
        /\ \A g \in {o + NumOps * k : k \in 0 .. Cardinality(DOMAIN hs)} :
              g \notin DOMAIN hs => h <= g

\* Engine.beginTransaction() / engine.begin()
Begin(hs, o) == (Fresh(hs, o) :> NewHandle("tx", o)) @@ hs

\* Engine.openConnection() / engine.connect()
Connect(hs, o) == (Fresh(hs, o) :> NewHandle("conn", o)) @@ hs

\* the rows a statement on handle h sees: committed rows and h's own writes
Visible(hs, d, h) ==
    IF hs[h].state = "open"
    THEN [authors |-> d.authors \cup hs[h].authors, books |-> d.books \cup hs[h].books]
    ELSE d

\* Engine.execute(handle, query): the rows it writes stay pending on h
Execute(hs, h, o, q) ==
    [hs EXCEPT ![h] =
        [@ EXCEPT
           !.authors = IF q.kind = "insert_author" THEN @ \cup {seq.author + 1} ELSE @,
           !.books = IF q.kind = "insert_book"
                     THEN @ \cup {[id |-> seq.book + 1, author_id |-> q.arg]} ELSE @,
           !.shared = @ \/ hs[h].op # o]]

\* .scalar_one() of the statement's result
Result(hs, d, h, q) ==
    LET v == Visible(hs, d, h) IN
    CASE q.kind = "insert_author" -> seq.author + 1
      [] q.kind = "insert_book" -> seq.book + 1
      [] q.kind = "count_authors" -> Cardinality(v.authors)
      [] q.kind = "max_author_id" -> MaxOf(v.authors)
      [] q.kind = "count_books" -> Cardinality(v.books)
      [] q.kind = "max_book_id" -> MaxOf({b.id : b \in v.books})

NextSeq(q) ==
    CASE q.kind = "insert_author" -> [seq EXCEPT !.author = @ + 1]
      [] q.kind = "insert_book" -> [seq EXCEPT !.book = @ + 1]
      [] OTHER -> seq

\* Engine.commit(handle): the pending rows become committed rows
Commit(hs, h) == [hs EXCEPT ![h].state = "committed", ![h].ends = @ + 1]

CommitDb(d, hs, h) ==
    IF hs[h].state = "open"
    THEN [authors |-> d.authors \cup hs[h].authors, books |-> d.books \cup hs[h].books]
    ELSE d

\* Engine.rollback(handle): the pending rows are dropped
Rollback(hs, h) == [hs EXCEPT ![h].state = "rolledback", ![h].ends = @ + 1]

\* Engine.close(handle) of a plain connection
Close(hs, h) == [hs EXCEPT ![h].state = "closed"]

\* ------------------------------------------------------------ ScopeContext
NoCtx == [h |-> NoHandle, kind |-> "None"]

\* a context-propagation cell tied to the logical operation
SlotGlobal(o) == 1

Slot(o) == o

Get(o) == ctx[Slot(o)]

Top(o) == stack[o][Len(stack[o])]

Pop(o) == [stack EXCEPT ![o] = SubSeq(@, 1, Len(@) - 1)]

Push(o, e) == [stack EXCEPT ![o] = Append(@, e)]

\* one more scope activation shares handle h
Retain(hs, h) ==
    [hs EXCEPT ![h].refs = @ + 1,
               ![h].peak = IF hs[h].refs + 1 > @ THEN hs[h].refs + 1 ELSE @]

\* ------------------------------------------------------------ ScopeManager
\* atomic() entered on whatever handle is ambient, a plain connection included
enterAtomicReusesAny(o) ==
    LET c == Get(o) IN
    IF c.h # NoHandle
    THEN /\ handles' = Retain(handles, c.h)
         /\ stack' = Push(o, [type |-> "atomic", h |-> c.h, owner |-> FALSE, prev |-> c])
         /\ ctx' = ctx
    ELSE LET h == Fresh(handles, o) IN
         /\ handles' = Retain(Begin(handles, o), h)
         /\ stack' = Push(o, [type |-> "atomic", h |-> h, owner |-> TRUE, prev |-> c])
         /\ ctx' = [ctx EXCEPT ![Slot(o)] = [h |-> h, kind |-> "Atomic"]]

\* every atomic() entry begins a transaction of its own
enterAtomicAlwaysBegin(o) ==
    LET c == Get(o)
        h == Fresh(handles, o)
    IN  /\ handles' = Retain(Begin(handles, o), h)
        /\ stack' = Push(o, [type |-> "atomic", h |-> h, owner |-> TRUE, prev |-> c])
        /\ ctx' = [ctx EXCEPT ![Slot(o)] = [h |-> h, kind |-> "Atomic"]]

\* async with fancy_engine.atomic(): reuse the ambient transaction or begin one
enterAtomic(o) ==
    LET c == Get(o) IN
    IF c.kind = "Atomic"
    THEN /\ handles' = Retain(handles, c.h)
         /\ stack' = Push(o, [type |-> "atomic", h |-> c.h, owner |-> FALSE, prev |-> c])
         /\ ctx' = ctx
    ELSE LET h == Fresh(handles, o) IN
         /\ handles' = Retain(Begin(handles, o), h)
         /\ stack' = Push(o, [type |-> "atomic", h |-> h, owner |-> TRUE, prev |-> c])
         /\ ctx' = [ctx EXCEPT ![Slot(o)] = [h |-> h, kind |-> "Atomic"]]

\* every atomic() exit commits or rolls back, whatever the reference count
exitAtomicEveryExit(o) ==
    LET t == Top(o)
        hs == [handles EXCEPT ![t.h].refs = @ - 1]
    IN  /\ stack' = Pop(o)
        /\ IF err[o] = "none"
           THEN /\ handles' = Commit(hs, t.h)
                /\ db' = CommitDb(db, hs, t.h)
           ELSE /\ handles' = Rollback(hs, t.h)
                /\ db' = db
        /\ ctx' = [ctx EXCEPT ![Slot(o)] = t.prev]

\* the owning exit emptying the ScopeContext whatever scope encloses it
exitAtomicClearsContext(o) ==
    LET t == Top(o)
        hs == [handles EXCEPT ![t.h].refs = @ - 1]
    IN  /\ stack' = Pop(o)
        /\ IF hs[t.h].refs = 0
           THEN /\ IF err[o] = "none"
                   THEN /\ handles' = Commit(hs, t.h)
                        /\ db' = CommitDb(db, hs, t.h)
                   ELSE /\ handles' = Rollback(hs, t.h)
                        /\ db' = db
                /\ ctx' = [ctx EXCEPT ![Slot(o)] = NoCtx]
           ELSE /\ handles' = hs
                /\ db' = db
                /\ ctx' = ctx

\* leaving an atomic scope; the outcome is exceptional when err[o] is set
exitAtomic(o) ==
    LET t == Top(o)
        hs == [handles EXCEPT ![t.h].refs = @ - 1]
    IN  /\ stack' = Pop(o)
        /\ IF hs[t.h].refs = 0
           THEN /\ IF err[o] = "none"
                   THEN /\ handles' = Commit(hs, t.h)
                        /\ db' = CommitDb(db, hs, t.h)
                   ELSE /\ handles' = Rollback(hs, t.h)
                        /\ db' = db
                /\ ctx' = [ctx EXCEPT ![Slot(o)] = t.prev]
           ELSE /\ handles' = hs
                /\ db' = db
                /\ ctx' = ctx

\* async with fancy_engine.non_atomic(): reuse any ambient handle or connect
enterNonAtomic(o) ==
    LET c == Get(o) IN
    IF c.h # NoHandle
    THEN /\ handles' = Retain(handles, c.h)
         /\ stack' = Push(o, [type |-> "non_atomic", h |-> c.h, owner |-> FALSE, prev |-> c])
         /\ ctx' = ctx
    ELSE LET h == Fresh(handles, o) IN
         /\ handles' = Retain(Connect(handles, o), h)
         /\ stack' = Push(o, [type |-> "non_atomic", h |-> h, owner |-> TRUE, prev |-> c])
         /\ ctx' = [ctx EXCEPT ![Slot(o)] = [h |-> h, kind |-> "NonAtomic"]]

\* the last exit closing the connection and leaving it in the ScopeContext
exitNonAtomicKeepsContext(o) ==
    LET t == Top(o)
        hs == [handles EXCEPT ![t.h].refs = @ - 1]
    IN  /\ stack' = Pop(o)
        /\ db' = db
        /\ ctx' = ctx
        /\ handles' = IF hs[t.h].refs = 0 THEN Close(hs, t.h) ELSE hs

\* leaving a non-atomic scope: the last exit releases the connection
exitNonAtomic(o) ==
    LET t == Top(o)
        hs == [handles EXCEPT ![t.h].refs = @ - 1]
    IN  /\ stack' = Pop(o)
        /\ db' = db
        /\ IF hs[t.h].refs = 0
           THEN /\ handles' = Close(hs, t.h)
                /\ ctx' = [ctx EXCEPT ![Slot(o)] = t.prev]
           ELSE /\ handles' = hs
                /\ ctx' = ctx

\* ---------------------------------------------------------------- Executor
\* what one executor call does: the handles and rows after it, the error it
\* raises, the value it returns and the handle the statement ran on
OnHandle(h, o, q) ==
    [hs |-> Execute(handles, h, o, q), d |-> db, e |-> "none",
     val |-> Result(handles, db, h, q), on |-> h]

\* Engine.execute(handle, query) fails: nothing is written, EngineError is raised
OnHandleFails(h, o, q) ==
    [hs |-> handles, d |-> db, e |-> "EngineError", val |-> None, on |-> h]

\* a transaction begun for one statement, which fails: it is rolled back
OneShotTxFails(o, q) ==
    LET h == Fresh(handles, o) IN
    [hs |-> Rollback(Begin(handles, o), h), d |-> db, e |-> "EngineError",
     val |-> None, on |-> h]

\* a transaction begun for this one statement and left open
OneShotTxLeftOpen(o, q) ==
    LET h == Fresh(handles, o)
        hs == Execute(Begin(handles, o), h, o, q)
    IN  [hs |-> hs, d |-> db, e |-> "none",
         val |-> Result(hs, db, h, q), on |-> h]

\* a transaction begun, used for this one statement and committed
OneShotTx(o, q) ==
    LET h == Fresh(handles, o)
        hs == Execute(Begin(handles, o), h, o, q)
    IN  [hs |-> Commit(hs, h), d |-> CommitDb(db, hs, h), e |-> "none",
         val |-> Result(hs, db, h, q), on |-> h]

\* a plain connection opened for this one statement and never closed
OneShotConnLeaks(o, q) ==
    LET h == Fresh(handles, o)
        hs == Execute(Connect(handles, o), h, o, q)
    IN  [hs |-> hs, d |-> db, e |-> "none",
         val |-> Result(hs, db, h, q), on |-> h]

\* a plain connection opened, used for this one statement and closed
OneShotConn(o, q) ==
    LET h == Fresh(handles, o)
        hs == Execute(Connect(handles, o), h, o, q)
    IN  [hs |-> Close(hs, h), d |-> db, e |-> "none",
         val |-> Result(hs, db, h, q), on |-> h]

Raises(e) == [hs |-> handles, d |-> db, e |-> e, val |-> None, on |-> NoHandle]

\* ax() starting a transaction of its own outside an atomic() scope
axOpens(o, q) ==
    IF Get(o).kind = "Atomic" THEN OnHandle(Get(o).h, o, q) ELSE OneShotTx(o, q)

\* ax(): must be called inside an atomic() scope
ax(o, q) ==
    IF Get(o).kind = "Atomic" THEN OnHandle(Get(o).h, o, q) ELSE Raises("ScopeError")

\* atx(): uses the atomic scope's transaction, or starts a new one
atx(o, q) ==
    IF Get(o).kind = "Atomic" THEN OnHandle(Get(o).h, o, q) ELSE OneShotTx(o, q)

\* atx() whose statement the database refuses
atxFailing(o, q) ==
    IF Get(o).kind = "Atomic" THEN OnHandleFails(Get(o).h, o, q) ELSE OneShotTxFails(o, q)

\* nax() acquiring a connection of its own whatever scope is active
naxOwnConn(o, q) == OneShotConn(o, q)

\* nax(): uses the ambient connection of either kind, or acquires a new one
nax(o, q) ==
    IF Get(o).h # NoHandle THEN OnHandle(Get(o).h, o, q) ELSE OneShotConn(o, q)

\* x() looking at the ambient scope before the connection it is passed
xPrefersAmbient(o, conn, q) ==
    IF Get(o).h # NoHandle THEN OnHandle(Get(o).h, o, q)
    ELSE IF conn # NoHandle THEN OnHandle(conn, o, q) ELSE nax(o, q)

\* x(conn, q): the passed connection, else the ambient one, else a new one
x(o, conn, q) ==
    IF conn # NoHandle THEN OnHandle(conn, o, q) ELSE nax(o, q)

\* tx() leaving aside the transaction it is passed
txIgnoresHandle(o, t, q) == atx(o, q)

\* tx() running on whatever connection it is passed
txAcceptsAny(o, t, q) ==
    IF t # NoHandle THEN OnHandle(t, o, q) ELSE atx(o, q)

\* tx(tr, q): the passed transaction, else the ambient one, else a new one
tx(o, t, q) ==
    IF t # NoHandle
    THEN IF handles[t].kind = "tx" THEN OnHandle(t, o, q) ELSE Raises("ScopeError")
    ELSE atx(o, q)

\* the effect of an executor call on the engine, the rows and the operation
Do(o, eff, q) ==
    /\ handles' = eff.hs
    /\ db' = eff.d
    /\ err' = [err EXCEPT ![o] = eff.e]
    /\ seq' = IF eff.e = "none" THEN NextSeq(q) ELSE seq

\* ------------------------------------------------------ scripted operation
\* an operation that enters and leaves scopes and calls the ambient executors
\* in any order its fuel allows
NoStats == [book_count |-> None, author_count |-> None,
            max_book_id |-> None, max_author_id |-> None]

NoLocal ==
    [author_id |-> None, ret |-> None, seen |-> None, on |-> NoHandle, fault |-> FALSE,
     ons |-> {}, stats |-> NoStats, snap |-> EmptyDb, own |-> FALSE]

NoPayload == [author_id |-> None, author_name |-> FALSE]

Script == [app |-> 0, fn |-> "script", via |-> "script"]

Idle == [app |-> 0, fn |-> "idle", via |-> "idle"]

Scripted(o) == prog[o] = Script /\ pc[o] = "run"

CanCall(o) == Scripted(o) /\ err[o] = "none" /\ fuel > 0

Spend(o) == fuel' = fuel - 1

atomic_enter(o) ==
    /\ CanCall(o) /\ Len(stack[o]) < MaxDepth
    /\ enterAtomic(o)
    /\ Spend(o)
    /\ UNCHANGED <<db, seq, err, prog, pc, tr, payload, local>>

\* the end of an atomic() block swallowing the error that leaves it
atomic_exit_swallows(o) ==
    /\ Scripted(o) /\ stack[o] # <<>> /\ Top(o).type = "atomic"
    /\ exitAtomic(o)
    /\ err' = [err EXCEPT ![o] = "none"]
    /\ UNCHANGED <<seq, prog, pc, tr, payload, local, fuel>>

atomic_exit(o) ==
    /\ Scripted(o) /\ stack[o] # <<>> /\ Top(o).type = "atomic"
    /\ exitAtomic(o)
    /\ UNCHANGED <<seq, err, prog, pc, tr, payload, local, fuel>>

\* the owning atomic() block is left by an error and Engine.rollback fails:
\* the transaction's final state is unknown and EngineError surfaces
atomic_exit_rollback_fails(o) ==
    /\ Scripted(o) /\ stack[o] # <<>> /\ Top(o).type = "atomic"
    /\ handles[Top(o).h].refs = 1 /\ err[o] # "none"
    /\ stack' = Pop(o)
    /\ handles' = [handles EXCEPT ![Top(o).h].refs = 0,
                                   ![Top(o).h].state = "failed",
                                   ![Top(o).h].ends = @ + 1]
    /\ ctx' = [ctx EXCEPT ![Slot(o)] = Top(o).prev]
    /\ err' = [err EXCEPT ![o] = "EngineError"]
    /\ UNCHANGED <<db, seq, prog, pc, tr, payload, local, fuel>>

non_atomic_enter(o) ==
    /\ CanCall(o) /\ Len(stack[o]) < MaxDepth
    /\ enterNonAtomic(o)
    /\ Spend(o)
    /\ UNCHANGED <<db, seq, err, prog, pc, tr, payload, local>>

non_atomic_exit(o) ==
    /\ Scripted(o) /\ stack[o] # <<>> /\ Top(o).type = "non_atomic"
    /\ exitNonAtomic(o)
    /\ UNCHANGED <<seq, err, prog, pc, tr, payload, local, fuel>>

\* a write through an executor: ax(insert) or atx(insert)
Wrote(o, eff) ==
    local' = [local EXCEPT ![o].author_id = eff.val, ![o].on = eff.on]

call_ax(o) ==
    /\ CanCall(o)
    /\ Do(o, ax(o, InsertAuthor), InsertAuthor)
    /\ Wrote(o, ax(o, InsertAuthor))
    /\ Spend(o)
    /\ UNCHANGED <<ctx, stack, prog, pc, tr, payload>>

call_atx(o) ==
    /\ CanCall(o)
    /\ Do(o, atx(o, InsertAuthor), InsertAuthor)
    /\ Wrote(o, atx(o, InsertAuthor))
    /\ Spend(o)
    /\ UNCHANGED <<ctx, stack, prog, pc, tr, payload>>

\* await fancy_engine.atx(...) raising the database's error
call_atx_failing(o) ==
    /\ CanCall(o)
    /\ Do(o, atxFailing(o, InsertAuthor), InsertAuthor)
    /\ Wrote(o, atxFailing(o, InsertAuthor))
    /\ Spend(o)
    /\ UNCHANGED <<ctx, stack, prog, pc, tr, payload>>

call_nax(o) ==
    /\ CanCall(o)
    /\ Do(o, nax(o, CountAuthors), CountAuthors)
    /\ local' = [local EXCEPT ![o].seen = nax(o, CountAuthors).val,
                              ![o].on = nax(o, CountAuthors).on]
    /\ Spend(o)
    /\ UNCHANGED <<ctx, stack, prog, pc, tr, payload>>

\* business logic inside the operation raises
raise_error(o) ==
    /\ CanCall(o)
    /\ err' = [err EXCEPT ![o] = "BusinessError"]
    /\ Spend(o)
    /\ UNCHANGED <<db, seq, handles, ctx, stack, prog, pc, tr, payload, local>>

\* a try/except inside the operation, around a nested scope or call
catch_error(o) ==
    /\ Scripted(o) /\ err[o] # "none" /\ stack[o] # <<>>
    /\ err' = [err EXCEPT ![o] = "none"]
    /\ UNCHANGED <<db, seq, handles, ctx, stack, prog, pc, tr, payload, local, fuel>>

\* the operation returns, or its error reaches whoever started it
finish(o) ==
    /\ Scripted(o) /\ stack[o] = <<>>
    /\ pc' = [pc EXCEPT ![o] = "done"]
    /\ UNCHANGED <<db, seq, handles, ctx, stack, err, prog, tr, payload, local, fuel>>

ScriptStep(o) ==
    \/ atomic_enter(o)
    \/ atomic_exit(o)
    \/ non_atomic_enter(o)
    \/ non_atomic_exit(o)
    \/ call_ax(o)
    \/ call_atx(o)
    \/ call_nax(o)
    \/ raise_error(o)
    \/ catch_error(o)
    \/ finish(o)

\* the autoincrement counters of tables holding the rows d
SeqOf(d) ==
    [author |-> IF d.authors = {} THEN 0 ELSE MaxOf(d.authors),
     book |-> IF d.books = {} THEN 0 ELSE MaxOf({b.id : b \in d.books})]

InitCommon(d) ==
    /\ db = d
    /\ seq = SeqOf(d)
    /\ handles = [h \in {} |-> NewHandle("tx", 0)]
    /\ ctx = [o \in Ops |-> NoCtx]
    /\ stack = [o \in Ops |-> <<>>]
    /\ err = [o \in Ops |-> "none"]
    /\ tr = [o \in Ops |-> NoHandle]
    /\ local = [o \in Ops |-> NoLocal]

\* one scripted operation, alone
InitScope ==
    /\ InitCommon(EmptyDb)
    /\ prog = [o \in Ops |-> IF o = 1 THEN Script ELSE Idle]
    /\ pc = [o \in Ops |-> IF o = 1 THEN "run" ELSE "done"]
    /\ payload = [o \in Ops |-> NoPayload]
    /\ fuel = ScopeFuel

NextScope == \E o \in Ops : ScriptStep(o)

SpecScope == InitScope /\ [][NextScope]_vars

\* every operation scripted, interleaved at every engine call
InitIso ==
    /\ InitCommon(EmptyDb)
    /\ prog = [o \in Ops |-> Script]
    /\ pc = [o \in Ops |-> "run"]
    /\ payload = [o \in Ops |-> NoPayload]
    /\ fuel = IsoFuel

NextIso == \E o \in Ops : ScriptStep(o)

SpecIso == InitIso /\ [][NextIso]_vars

\* one scripted operation whose statements and rollbacks may fail in the engine
NextFault ==
    \E o \in Ops :
        \/ ScriptStep(o)
        \/ call_atx_failing(o)
        \/ atomic_exit_rollback_fails(o)

SpecFault == InitScope /\ [][NextFault]_vars

\* ---------------------------------------------------------------- handlers
\* what an operation runs: a handler of app_1 (ambient lookup), app_2
\* (injection) or app_3 (optional parameter), called directly, over HTTP or
\* with a transaction the caller began itself
Program(app, fn, via) == [app |-> app, fn |-> fn, via |-> via]

\* schemas.CreateBook: author_id is None, 0 or an id; author_name given or not
Payloads == [author_id : {None, 0, 1}, author_name : BOOLEAN]

\* the payload of tests/test_atomicity2.py: a title and an author_name
TestPayload == [author_id |-> None, author_name |-> TRUE]

\* not author_id and payload.author_name
NeedsAuthor(p) == (p.author_id = None \/ p.author_id = 0) /\ p.author_name

InFlight(o) == pc[o] \notin {"idle", "done"}

Goto(o, label) == pc' = [pc EXCEPT ![o] = label]

BodyStart(o) == IF prog[o].fn = "create_book" THEN "enter" ELSE "q1"

\* create_book going on to the book insert when the simulated failure fires
create_book_fault_not_raised(o, a, b) ==
    \/ /\ pc[o] = "enter"
       /\ local' = [local EXCEPT ![o].author_id = payload[o].author_id]
       /\ Goto(o, IF NeedsAuthor(payload[o]) THEN "author" ELSE "book")
       /\ UNCHANGED <<db, seq, handles, err>>
    \/ /\ pc[o] = "author"
       /\ Do(o, a, InsertAuthor)
       /\ local' = [local EXCEPT ![o].author_id = a.val,
                                 ![o].on = a.on,
                                 ![o].ons = @ \cup {a.on}]
       /\ Goto(o, IF a.e = "none" THEN "fault" ELSE "unwind")
    \/ /\ pc[o] = "fault"
       /\ \E f \in BOOLEAN :
            /\ local' = [local EXCEPT ![o].fault = f]
            /\ Goto(o, "book")
       /\ UNCHANGED <<db, seq, handles, err>>
    \/ /\ pc[o] = "book"
       /\ Do(o, b, InsertBook(local[o].author_id))
       /\ local' = [local EXCEPT ![o].ret = b.val,
                                 ![o].on = b.on,
                                 ![o].ons = @ \cup {b.on}]
       /\ Goto(o, "unwind")

\* the body shared by the three create_book handlers; a and b are what the
\* convention's statement calls do: the author insert and the book insert
create_book(o, a, b) ==
    \/ /\ pc[o] = "enter"
       /\ local' = [local EXCEPT ![o].author_id = payload[o].author_id]
       /\ Goto(o, IF NeedsAuthor(payload[o]) THEN "author" ELSE "book")
       /\ UNCHANGED <<db, seq, handles, err>>
    \/ /\ pc[o] = "author"
       /\ Do(o, a, InsertAuthor)
       /\ local' = [local EXCEPT ![o].author_id = a.val,
                                 ![o].on = a.on,
                                 ![o].ons = @ \cup {a.on}]
       /\ Goto(o, IF a.e = "none" THEN "fault" ELSE "unwind")
    \/ /\ pc[o] = "fault"
       /\ \E f \in BOOLEAN :
            /\ local' = [local EXCEPT ![o].fault = f]
            /\ err' = [err EXCEPT ![o] = IF f THEN "BusinessError" ELSE "none"]
            /\ Goto(o, IF f THEN "unwind" ELSE "book")
       /\ UNCHANGED <<db, seq, handles>>
    \/ /\ pc[o] = "book"
       /\ Do(o, b, InsertBook(local[o].author_id))
       /\ local' = [local EXCEPT ![o].ret = b.val,
                                 ![o].on = b.on,
                                 ![o].ons = @ \cup {b.on}]
       /\ Goto(o, "unwind")

\* app_1_hidden_context.create_book: db.fancy_engine.atx(qry)
create_book_1(o) ==
    /\ prog[o].app = 1 /\ prog[o].fn = "create_book"
    /\ create_book(o, atx(o, InsertAuthor), atx(o, InsertBook(local[o].author_id)))
    /\ UNCHANGED <<ctx, stack, prog, tr, payload, fuel>>

\* create_book running each statement in a transaction of its own
create_book_2_autocommit(o) ==
    /\ prog[o].app = 2 /\ prog[o].fn = "create_book"
    /\ create_book(o, OneShotTx(o, InsertAuthor),
                      OneShotTx(o, InsertBook(local[o].author_id)))
    /\ UNCHANGED <<ctx, stack, prog, tr, payload, fuel>>

\* app_2_dependency_injection.create_book: tr.execute(qry)
create_book_2(o) ==
    /\ prog[o].app = 2 /\ prog[o].fn = "create_book"
    /\ create_book(o, OnHandle(tr[o], o, InsertAuthor),
                      OnHandle(tr[o], o, InsertBook(local[o].author_id)))
    /\ UNCHANGED <<ctx, stack, prog, tr, payload, fuel>>

\* create_book calling tx(None, qry): the tr it was given is not passed on
create_book_3_drops_tr(o) ==
    /\ prog[o].app = 3 /\ prog[o].fn = "create_book"
    /\ create_book(o, tx(o, NoHandle, InsertAuthor),
                      tx(o, NoHandle, InsertBook(local[o].author_id)))
    /\ UNCHANGED <<ctx, stack, prog, tr, payload, fuel>>

\* app_3_optional_param.create_book: db.fancy_engine.tx(tr, qry)
create_book_3(o) ==
    /\ prog[o].app = 3 /\ prog[o].fn = "create_book"
    /\ create_book(o, tx(o, tr[o], InsertAuthor),
                      tx(o, tr[o], InsertBook(local[o].author_id)))
    /\ UNCHANGED <<ctx, stack, prog, tr, payload, fuel>>

\* one statement of get_stats: what it does, and the result key it fills
StatsStep(o, eff, q, key, next) ==
    /\ Do(o, eff, q)
    /\ local' = [local EXCEPT ![o].stats = [@ EXCEPT ![key] = eff.val],
                              ![o].ons = @ \cup {eff.on}]
    /\ Goto(o, next)

\* the body shared by the three get_stats handlers; e1 .. e4 are what the
\* convention's four statement calls do
get_stats(o, e1, e2, e3, e4) ==
    \/ pc[o] = "q1" /\ StatsStep(o, e1, CountAuthors, "author_count", "q2")
    \/ pc[o] = "q2" /\ StatsStep(o, e2, MaxAuthorId, "max_author_id", "q3")
    \/ pc[o] = "q3" /\ StatsStep(o, e3, CountBooks, "book_count", "q4")
    \/ pc[o] = "q4" /\ StatsStep(o, e4, MaxBookId, "max_book_id", "unwind")

\* app_1_hidden_context.get_stats: db.fancy_engine.nax(...)
get_stats_1(o) ==
    /\ prog[o].app = 1 /\ prog[o].fn = "get_stats"
    /\ get_stats(o, nax(o, CountAuthors), nax(o, MaxAuthorId),
                    nax(o, CountBooks), nax(o, MaxBookId))
    /\ UNCHANGED <<ctx, stack, prog, tr, payload, fuel>>

\* app_2_decorator.get_stats / app_2_dependency_injection.get_stats: conn.execute(...)
get_stats_2(o) ==
    /\ prog[o].app = 2 /\ prog[o].fn = "get_stats"
    /\ get_stats(o, OnHandle(tr[o], o, CountAuthors), OnHandle(tr[o], o, MaxAuthorId),
                    OnHandle(tr[o], o, CountBooks), OnHandle(tr[o], o, MaxBookId))
    /\ UNCHANGED <<ctx, stack, prog, tr, payload, fuel>>

\* get_stats taking its "max book id" from the author table
get_stats_3_wrong_table(o) ==
    /\ prog[o].app = 3 /\ prog[o].fn = "get_stats"
    /\ get_stats(o, x(o, tr[o], CountAuthors), x(o, tr[o], MaxAuthorId),
                    x(o, tr[o], CountBooks), x(o, tr[o], MaxAuthorId))
    /\ UNCHANGED <<ctx, stack, prog, tr, payload, fuel>>

\* app_3_optional_param.get_stats: db.fancy_engine.x(conn, ...)
get_stats_3(o) ==
    /\ prog[o].app = 3 /\ prog[o].fn = "get_stats"
    /\ get_stats(o, x(o, tr[o], CountAuthors), x(o, tr[o], MaxAuthorId),
                    x(o, tr[o], CountBooks), x(o, tr[o], MaxBookId))
    /\ UNCHANGED <<ctx, stack, prog, tr, payload, fuel>>

\* the block's exit commits whatever the outcome
EndTransactionAlwaysCommit(o) ==
    /\ handles' = Commit(handles, tr[o])
    /\ db' = CommitDb(db, handles, tr[o])

\* ------------------------------------------------ dependencies and adapters
\* async with engine.begin() as conn: the block's exit commits, or rolls back
\* when an exception leaves the block
EndTransaction(o) ==
    IF err[o] = "none"
    THEN /\ handles' = Commit(handles, tr[o])
         /\ db' = CommitDb(db, handles, tr[o])
    ELSE /\ handles' = Rollback(handles, tr[o])
         /\ db' = db

\* db.transaction_dependency, up to its yield: POST /books of app_2 and app_3
transaction_dependency_enter(o) ==
    /\ pc[o] = "idle" /\ prog[o].via = "http" /\ prog[o].fn = "create_book"
    /\ handles' = Begin(handles, o)
    /\ tr' = [tr EXCEPT ![o] = Fresh(handles, o)]
    /\ local' = [local EXCEPT ![o].snap = db]
    /\ Goto(o, BodyStart(o))
    /\ UNCHANGED <<db, seq, ctx, stack, err, prog, payload, fuel>>

\* db.transaction_dependency ending its transaction only when the handler returned
transaction_dependency_exit_on_return(o) ==
    /\ pc[o] = "unwind" /\ prog[o].via = "http" /\ prog[o].fn = "create_book"
    /\ ~local[o].own
    /\ IF err[o] = "none" THEN EndTransaction(o) ELSE UNCHANGED <<handles, db>>
    /\ Goto(o, "done")
    /\ UNCHANGED <<seq, ctx, stack, err, prog, tr, payload, local, fuel>>

\* db.transaction_dependency, after its yield: the handler has returned or raised
transaction_dependency_exit(o) ==
    /\ pc[o] = "unwind" /\ prog[o].via = "http" /\ prog[o].fn = "create_book"
    /\ ~local[o].own
    /\ EndTransaction(o)
    /\ Goto(o, "done")
    /\ UNCHANGED <<seq, ctx, stack, err, prog, tr, payload, local, fuel>>

\* db.connection_dependency, up to its yield: GET /stats of app_2 and app_3
connection_dependency_enter(o) ==
    /\ pc[o] = "idle" /\ prog[o].via = "http" /\ prog[o].fn = "get_stats"
    /\ handles' = Connect(handles, o)
    /\ tr' = [tr EXCEPT ![o] = Fresh(handles, o)]
    /\ local' = [local EXCEPT ![o].snap = db]
    /\ Goto(o, BodyStart(o))
    /\ UNCHANGED <<db, seq, ctx, stack, err, prog, payload, fuel>>

\* db.connection_dependency, after its yield
connection_dependency_exit(o) ==
    /\ pc[o] = "unwind" /\ prog[o].via = "http" /\ prog[o].fn = "get_stats"
    /\ ~local[o].own
    /\ handles' = Close(handles, tr[o])
    /\ Goto(o, "done")
    /\ UNCHANGED <<db, seq, ctx, stack, err, prog, tr, payload, local, fuel>>

\* async with engine.begin() as tr: await handler(..., tr=tr)
engine_begin_enter(o) ==
    /\ pc[o] = "idle" /\ prog[o].via = "explicit"
    /\ handles' = Begin(handles, o)
    /\ tr' = [tr EXCEPT ![o] = Fresh(handles, o)]
    /\ local' = [local EXCEPT ![o].snap = db]
    /\ Goto(o, IF prog[o].app = 2 THEN "adapt" ELSE BodyStart(o))
    /\ UNCHANGED <<db, seq, ctx, stack, err, prog, payload, fuel>>

engine_begin_exit(o) ==
    /\ pc[o] = "unwind" /\ prog[o].via = "explicit"
    /\ ~local[o].own
    /\ EndTransaction(o)
    /\ Goto(o, "done")
    /\ UNCHANGED <<seq, ctx, stack, err, prog, tr, payload, local, fuel>>

\* await handler(...): a direct call, with no connection passed; the calls
\* are awaited one after another, in the order of their numbers
call(o) ==
    /\ pc[o] = "idle" /\ prog[o].via = "direct"
    /\ \A p \in Ops : ~InFlight(p) /\ (p < o => pc[p] = "done")
    /\ local' = [local EXCEPT ![o].snap = db]
    /\ Goto(o, IF prog[o].app = 2 THEN "adapt" ELSE BodyStart(o))
    /\ UNCHANGED <<db, seq, handles, ctx, stack, err, prog, tr, payload, fuel>>

\* the direct call returns or raises to its caller
returns(o) ==
    /\ pc[o] = "unwind" /\ prog[o].via = "direct"
    /\ ~local[o].own
    /\ Goto(o, "done")
    /\ UNCHANGED <<db, seq, handles, ctx, stack, err, prog, tr, payload, local, fuel>>

\* @transact with tr=Inject(db.engine): a passed transaction is used as it is,
\* a passed plain connection is refused, and with none passed a new
\* transaction is started on db.engine and passed as the value
transact_enter(o) ==
    /\ pc[o] = "adapt" /\ prog[o].app = 2 /\ prog[o].fn = "create_book"
    /\ IF tr[o] # NoHandle
       THEN /\ err' = [err EXCEPT ![o] =
                         IF handles[tr[o]].kind = "tx" THEN "none" ELSE "ScopeError"]
            /\ Goto(o, IF handles[tr[o]].kind = "tx" THEN BodyStart(o) ELSE "unwind")
            /\ UNCHANGED <<handles, tr, local>>
       ELSE /\ handles' = Begin(handles, o)
            /\ tr' = [tr EXCEPT ![o] = Fresh(handles, o)]
            /\ local' = [local EXCEPT ![o].own = TRUE]
            /\ Goto(o, BodyStart(o))
            /\ UNCHANGED err
    /\ UNCHANGED <<db, seq, ctx, stack, prog, payload, fuel>>

\* the transaction @transact started ends with the function: committed when
\* it returns, rolled back when it raises
transact_exit(o) ==
    /\ pc[o] = "unwind" /\ prog[o].app = 2 /\ prog[o].fn = "create_book"
    /\ local[o].own
    /\ EndTransaction(o)
    /\ local' = [local EXCEPT ![o].own = FALSE]
    /\ UNCHANGED <<seq, ctx, stack, err, prog, pc, tr, payload, fuel>>

\* @connect with conn=Inject(db.engine): a passed connection of either kind is
\* used as it is, and with none passed a new connection is acquired on
\* db.engine and passed as the value
connect_enter(o) ==
    /\ pc[o] = "adapt" /\ prog[o].app = 2 /\ prog[o].fn = "get_stats"
    /\ IF tr[o] # NoHandle
       THEN UNCHANGED <<handles, tr, local>>
       ELSE /\ handles' = Connect(handles, o)
            /\ tr' = [tr EXCEPT ![o] = Fresh(handles, o)]
            /\ local' = [local EXCEPT ![o].own = TRUE]
    /\ Goto(o, BodyStart(o))
    /\ UNCHANGED <<db, seq, ctx, stack, err, prog, payload, fuel>>

\* the connection @connect acquired is released with the function
connect_exit(o) ==
    /\ pc[o] = "unwind" /\ prog[o].app = 2 /\ prog[o].fn = "get_stats"
    /\ local[o].own
    /\ handles' = Close(handles, tr[o])
    /\ local' = [local EXCEPT ![o].own = FALSE]
    /\ UNCHANGED <<db, seq, ctx, stack, err, prog, pc, tr, payload, fuel>>

\* ------------------------------------------------------------------ callers
\* a handler called by code that may be inside a scope of fancy_engine and
\* may pass a connection it obtained from db.engine
Called(app, fn, scope, pass) ==
    [app |-> app, fn |-> fn, via |-> "caller", scope |-> scope, pass |-> pass]

ByCaller(o) == prog[o].via = "caller"

\* async with db.engine.begin() as tr / db.engine.connect() as conn, or neither
caller_open(o) ==
    /\ pc[o] = "idle" /\ ByCaller(o)
    /\ IF prog[o].pass = "none"
       THEN UNCHANGED <<handles, tr>>
       ELSE /\ handles' = IF prog[o].pass = "tx" THEN Begin(handles, o)
                                                 ELSE Connect(handles, o)
            /\ tr' = [tr EXCEPT ![o] = Fresh(handles, o)]
    /\ local' = [local EXCEPT ![o].snap = db]
    /\ Goto(o, "scope")
    /\ UNCHANGED <<db, seq, ctx, stack, err, prog, payload, fuel>>

\* async with fancy_engine.atomic() / fancy_engine.non_atomic(), or neither
caller_scope(o) ==
    /\ pc[o] = "scope" /\ ByCaller(o)
    /\ CASE prog[o].scope = "atomic" -> enterAtomic(o)
         [] prog[o].scope = "non_atomic" -> enterNonAtomic(o)
         [] OTHER -> UNCHANGED <<handles, ctx, stack>>
    /\ Goto(o, "ready")
    /\ UNCHANGED <<db, seq, err, prog, tr, payload, local, fuel>>

\* inside its atomic scope the caller writes an author before the call
caller_write(o) ==
    /\ pc[o] = "ready" /\ ByCaller(o) /\ Get(o).kind = "Atomic"
    /\ Do(o, ax(o, InsertAuthor), InsertAuthor)
    /\ local' = [local EXCEPT ![o].seen = ax(o, InsertAuthor).val]
    /\ Goto(o, "call")
    /\ UNCHANGED <<ctx, stack, prog, tr, payload, fuel>>

\* await handler(...), passing tr=tr / conn=conn when the caller has one
caller_call(o) ==
    /\ pc[o] \in {"ready", "call"} /\ ByCaller(o)
    /\ Goto(o, IF prog[o].app = 2 THEN "adapt" ELSE BodyStart(o))
    /\ UNCHANGED <<db, seq, handles, ctx, stack, err, prog, tr, payload, local, fuel>>

\* the handler returns or raises to its caller
caller_returns(o) ==
    /\ pc[o] = "unwind" /\ ByCaller(o)
    /\ ~local[o].own
    /\ Goto(o, "leave")
    /\ UNCHANGED <<db, seq, handles, ctx, stack, err, prog, tr, payload, local, fuel>>

\* the end of the caller's atomic() / non_atomic() block
caller_scope_exit(o) ==
    /\ pc[o] = "leave" /\ ByCaller(o)
    /\ stack[o] # <<>>
    /\ IF Top(o).type = "atomic" THEN exitAtomic(o) ELSE exitNonAtomic(o)
    /\ UNCHANGED <<seq, err, prog, pc, tr, payload, local, fuel>>

\* the end of the caller's engine.begin() / engine.connect() block
caller_close(o) ==
    /\ pc[o] = "leave" /\ ByCaller(o)
    /\ stack[o] = <<>>
    /\ CASE prog[o].pass = "tx" -> EndTransaction(o)
         [] prog[o].pass = "conn" -> handles' = Close(handles, tr[o]) /\ db' = db
         [] OTHER -> UNCHANGED <<handles, db>>
    /\ Goto(o, "done")
    /\ UNCHANGED <<seq, ctx, stack, err, prog, tr, payload, local, fuel>>

\* the operation is cancelled, or its client disconnects, while it awaits a
\* statement: CancelledError is raised at that await
cancel(o) ==
    /\ pc[o] \in {"author", "book", "q1", "q2", "q3", "q4"}
    /\ err[o] = "none"
    /\ err' = [err EXCEPT ![o] = "Cancelled"]
    /\ Goto(o, "unwind")
    /\ UNCHANGED <<db, seq, handles, ctx, stack, prog, tr, payload, local, fuel>>

\* ------------------------------------------------- the middleware application
\* app.py: its handlers take no connection and call db.run; every request
\* passes through db.transaction_middleware
MiddlewareApp == 4

\* db.run beginning a transaction of its own for every statement
runOwnTransaction(o, q) == OneShotTx(o, q)

\* db.py: run = fancy_engine.atx
run(o, q) == atx(o, q)

\* transaction_middleware, up to call_next: async with atomic() as session
transaction_middleware_enter(o) ==
    /\ pc[o] = "idle" /\ prog[o].via = "middleware"
    /\ enterAtomic(o)
    /\ local' = [local EXCEPT ![o].snap = db]
    /\ Goto(o, BodyStart(o))
    /\ UNCHANGED <<db, seq, err, prog, tr, payload, fuel>>

\* app.create_book: db.run(qry)
app_create_book(o) ==
    /\ prog[o].app = MiddlewareApp /\ prog[o].fn = "create_book"
    /\ create_book(o, run(o, InsertAuthor), run(o, InsertBook(local[o].author_id)))
    /\ UNCHANGED <<ctx, stack, prog, tr, payload, fuel>>

\* app.get_stats: db.run(...)
app_get_stats(o) ==
    /\ prog[o].app = MiddlewareApp /\ prog[o].fn = "get_stats"
    /\ get_stats(o, run(o, CountAuthors), run(o, MaxAuthorId),
                    run(o, CountBooks), run(o, MaxBookId))
    /\ UNCHANGED <<ctx, stack, prog, tr, payload, fuel>>

\* transaction_middleware, after call_next: the atomic() block is left, by
\* the response or by the exception the handler raised
transaction_middleware_exit(o) ==
    /\ pc[o] = "unwind" /\ prog[o].via = "middleware"
    /\ exitAtomic(o)
    /\ Goto(o, "done")
    /\ UNCHANGED <<seq, err, prog, tr, payload, local, fuel>>

\* ------------------------------------------------------------ specifications
InitHandlers(progs, payloads, dbs) ==
    /\ \E d \in dbs : InitCommon(d)
    /\ prog \in [Ops -> progs]
    /\ payload \in [Ops -> payloads \cup {NoPayload}]
    /\ \A o \in Ops : IF prog[o].fn = "get_stats" THEN payload[o] = NoPayload
                                                   ELSE payload[o] \in payloads
    /\ pc = [o \in Ops |-> "idle"]
    /\ fuel = 0

\* tests/test_atomicity2.py: concurrent POST /books requests to app_2
InitHttp == InitHandlers({Program(2, "create_book", "http")}, {TestPayload}, {EmptyDb})

NextHttp ==
    \E o \in Ops :
        \/ transaction_dependency_enter(o)
        \/ create_book_2(o)
        \/ transaction_dependency_exit(o)

SpecHttp == InitHttp /\ [][NextHttp]_vars

\* the rows two earlier calls leave: create_book with an author_name, then
\* create_book with that author's id
SeededDb ==
    [authors |-> {1},
     books |-> {[id |-> 1, author_id |-> 1], [id |-> 2, author_id |-> 1]}]

\* handlers of the three conventions called directly, one call after another
InitDirect ==
    InitHandlers({Program(a, f, "direct") : a \in {1, 2, 3}, f \in {"create_book", "get_stats"}},
                 Payloads, {EmptyDb, SeededDb})

NextDirect ==
    \E o \in Ops :
        \/ call(o)
        \/ transact_enter(o)
        \/ connect_enter(o)
        \/ create_book_1(o)
        \/ create_book_2(o)
        \/ create_book_3(o)
        \/ get_stats_1(o)
        \/ get_stats_2(o)
        \/ get_stats_3(o)
        \/ transact_exit(o)
        \/ connect_exit(o)
        \/ returns(o)

SpecDirect == InitDirect /\ [][NextDirect]_vars

\* one scripted operation next to one POST /books request to app_2
InitAtomic ==
    /\ InitCommon(EmptyDb)
    /\ prog = [o \in Ops |-> IF o = 1 THEN Script
                             ELSE IF o = 2 THEN Program(2, "create_book", "http")
                             ELSE Idle]
    /\ pc = [o \in Ops |-> IF o = 1 THEN "run" ELSE IF o = 2 THEN "idle" ELSE "done"]
    /\ payload = [o \in Ops |-> IF o = 2 THEN TestPayload ELSE NoPayload]
    /\ fuel = AtomicFuel

NextAtomic ==
    \E o \in Ops :
        \/ ScriptStep(o)
        \/ transaction_dependency_enter(o)
        \/ create_book_2(o)
        \/ transaction_dependency_exit(o)

SpecAtomic == InitAtomic /\ [][NextAtomic]_vars

\* handlers of app_2 and app_3 given a handle: by the FastAPI dependency, or
\* by a caller that began the transaction itself
InitExplicit ==
    InitHandlers({Program(a, f, v) : a \in {2, 3}, f \in {"create_book", "get_stats"},
                                     v \in {"http", "explicit"}},
                 {TestPayload}, {EmptyDb})

NextExplicit ==
    \E o \in Ops :
        \/ transaction_dependency_enter(o)
        \/ connection_dependency_enter(o)
        \/ engine_begin_enter(o)
        \/ transact_enter(o)
        \/ connect_enter(o)
        \/ create_book_2(o)
        \/ create_book_3(o)
        \/ get_stats_2(o)
        \/ get_stats_3(o)
        \/ transaction_dependency_exit(o)
        \/ connection_dependency_exit(o)
        \/ engine_begin_exit(o)

SpecExplicit == InitExplicit /\ [][NextExplicit]_vars

\* concurrent requests to the middleware application
InitMiddleware ==
    InitHandlers({Program(MiddlewareApp, f, "middleware") : f \in {"create_book", "get_stats"}},
                 {TestPayload, [author_id |-> 1, author_name |-> FALSE]}, {EmptyDb})

NextMiddleware ==
    \E o \in Ops :
        \/ transaction_middleware_enter(o)
        \/ app_create_book(o)
        \/ app_get_stats(o)
        \/ transaction_middleware_exit(o)

SpecMiddleware == InitMiddleware /\ [][NextMiddleware]_vars

\* a scripted operation, whose statements and rollbacks may fail, next to one
\* request: GET /stats or POST /books of app_2 or app_3, or a request to the
\* middleware application
LifetimePrograms ==
    {Program(a, f, "http") : a \in {2, 3}, f \in {"create_book", "get_stats"}}
    \cup {Program(MiddlewareApp, f, "middleware") : f \in {"create_book", "get_stats"}}

InitLifetime ==
    /\ InitCommon(EmptyDb)
    /\ \E r \in LifetimePrograms :
          prog = [o \in Ops |-> IF o = 1 THEN Script ELSE IF o = 2 THEN r ELSE Idle]
    /\ pc = [o \in Ops |-> IF o = 1 THEN "run" ELSE IF o = 2 THEN "idle" ELSE "done"]
    /\ payload = [o \in Ops |-> IF o = 2 /\ prog[2].fn = "create_book"
                                THEN TestPayload ELSE NoPayload]
    /\ fuel = AtomicFuel

NextLifetime ==
    \E o \in Ops :
        \/ ScriptStep(o)
        \/ call_atx_failing(o)
        \/ atomic_exit_rollback_fails(o)
        \/ transaction_dependency_enter(o)
        \/ connection_dependency_enter(o)
        \/ transaction_middleware_enter(o)
        \/ create_book_2(o)
        \/ create_book_3(o)
        \/ get_stats_2(o)
        \/ get_stats_3(o)
        \/ app_create_book(o)
        \/ app_get_stats(o)
        \/ transaction_dependency_exit(o)
        \/ connection_dependency_exit(o)
        \/ transaction_middleware_exit(o)

SpecLifetime == InitLifetime /\ [][NextLifetime]_vars

\* POST /books requests with an author_name and no author_id, next to
\* GET /stats requests, to app_2 and app_3
InitReaders ==
    InitHandlers({Program(a, f, "http") : a \in {2, 3}, f \in {"create_book", "get_stats"}},
                 {TestPayload}, {EmptyDb})

NextReaders ==
    \E o \in Ops :
        \/ transaction_dependency_enter(o)
        \/ connection_dependency_enter(o)
        \/ create_book_2(o)
        \/ create_book_3(o)
        \/ get_stats_2(o)
        \/ get_stats_3(o)
        \/ transaction_dependency_exit(o)
        \/ connection_dependency_exit(o)

SpecReaders == InitReaders /\ [][NextReaders]_vars

\* the ways a handler gets called: by a caller inside or outside a scope,
\* with or without a connection (app_1's handlers take none), or over HTTP
CallerPrograms ==
    {Called(a, f, s, c) : a \in {2, 3}, f \in {"create_book", "get_stats"},
                          s \in {"none", "atomic", "non_atomic"},
                          c \in {"none", "tx", "conn"}}
    \cup {Called(1, f, s, "none") : f \in {"create_book", "get_stats"},
                                    s \in {"none", "atomic", "non_atomic"}}
    \cup {Program(a, f, "http") : a \in {2, 3}, f \in {"create_book", "get_stats"}}

\* one operation calling one handler in one of those ways
InitCaller ==
    /\ InitCommon(EmptyDb)
    /\ \E c \in CallerPrograms : prog = [o \in Ops |-> IF o = 1 THEN c ELSE Idle]
    /\ \E b \in {TestPayload, NoPayload} :
          payload = [o \in Ops |-> IF o = 1 /\ prog[1].fn = "create_book"
                                   THEN b ELSE NoPayload]
    /\ pc = [o \in Ops |-> IF o = 1 THEN "idle" ELSE "done"]
    /\ fuel = 0

NextCaller ==
    \E o \in Ops :
        \/ caller_open(o)
        \/ caller_scope(o)
        \/ caller_write(o)
        \/ caller_call(o)
        \/ transaction_dependency_enter(o)
        \/ connection_dependency_enter(o)
        \/ transact_enter(o)
        \/ connect_enter(o)
        \/ create_book_1(o)
        \/ create_book_2(o)
        \/ create_book_3(o)
        \/ get_stats_1(o)
        \/ get_stats_2(o)
        \/ get_stats_3(o)
        \/ transact_exit(o)
        \/ connect_exit(o)
        \/ caller_returns(o)
        \/ caller_scope_exit(o)
        \/ caller_close(o)
        \/ transaction_dependency_exit(o)
        \/ connection_dependency_exit(o)

SpecCaller == InitCaller /\ [][NextCaller]_vars

\* the same calls, any of which may be cancelled at a statement it awaits
NextCancel == NextCaller \/ \E o \in Ops : cancel(o)

SpecCancel == InitCaller /\ [][NextCancel]_vars /\ WF_vars(NextCancel)

\* ------------------------------------------------------------------ claims
\* the committed rows that operation o's own statements wrote
AuthorsBy(o) ==
    db.authors \cap UNION {handles[h].authors : h \in {g \in DOMAIN handles : handles[g].op = o}}

BooksBy(o) ==
    db.books \cap UNION {handles[h].books : h \in {g \in DOMAIN handles : handles[g].op = o}}

AllDone == \A o \in Ops : pc[o] = "done"

Succeeded == {o \in Ops : pc[o] = "done" /\ err[o] = "none"}

\* C1: once every concurrent POST /books request to app_2 has finished, the
\* committed authors are as many as the committed books, and both are as
\* many as the requests that reported success.
C1_CommittedEqualsSucceeded ==
    AllDone =>
        /\ Cardinality(db.authors) = Cardinality(db.books)
        /\ Cardinality(db.books) = Cardinality(Succeeded)

\* all requests finished, one committed its two rows, another was rolled back
C1_Witness ==
    /\ AllDone
    /\ \E a, b \in Ops : err[a] = "none" /\ err[b] = "BusinessError" /\ local[b].author_id # None
    /\ db.authors # {}

\* an atomic scope of a scripted operation is left while an error propagates
LeavesAtomicWithError(o) ==
    /\ prog[o] = Script
    /\ stack[o] # <<>>
    /\ Len(stack'[o]) = Len(stack[o]) - 1
    /\ Top(o).type = "atomic"
    /\ err[o] # "none"

\* the transaction of db.transaction_dependency is left while an error propagates
LeavesDependencyWithError(o) ==
    /\ prog[o].via = "http"
    /\ pc[o] = "unwind" /\ pc'[o] = "done"
    /\ err[o] # "none"

\* after the step, handle h is rolled back and none of its writes is committed
RolledBackAfter(h) ==
    /\ handles'[h].state = "rolledback"
    /\ handles[h].authors \cap db'.authors = {}
    /\ handles[h].books \cap db'.books = {}

\* C2 as stated: whenever an error propagates out of an atomic scope, owning
\* or nested, the transaction is rolled back and the scope's writes are not
\* persisted when the error reaches the scope's caller.
C2_EveryScopeRolledBack ==
    [][\A o \in Ops :
          /\ LeavesAtomicWithError(o) => RolledBackAfter(Top(o).h)
          /\ LeavesDependencyWithError(o) => RolledBackAfter(tr[o])]_vars

\* C2 amended: whenever an error propagates out of the atomic scope that owns
\* the transaction (the activation that began it, or the engine.begin() block
\* of transaction_dependency), the transaction is rolled back and none of its
\* writes is persisted when the error reaches the scope's caller.
C2_OwningScopeRolledBack ==
    [][\A o \in Ops :
          /\ (LeavesAtomicWithError(o) /\ Top(o).owner) => RolledBackAfter(Top(o).h)
          /\ LeavesDependencyWithError(o) => RolledBackAfter(tr[o])]_vars

\* an owning scope and a request were both left by an error after a write
C2_Witness ==
    /\ \E h \in DOMAIN handles :
          /\ handles[h].op = 1 /\ handles[h].state = "rolledback"
          /\ handles[h].authors # {} /\ handles[h].peak = 1
    /\ err[1] # "none" /\ stack[1] = <<>>
    /\ \E o \in Ops :
          /\ prog[o].via = "http" /\ pc[o] = "done" /\ err[o] = "BusinessError"
          /\ handles[tr[o]].state = "rolledback" /\ handles[tr[o]].authors # {}

AtomicEntries(o) == {i \in 1 .. Len(stack[o]) : stack[o][i].type = "atomic"}

\* C3: the atomic scopes nested in one operation, whatever the depth, share
\* one transaction begun once by exactly one of them, and every transaction
\* gets exactly one terminal action: none while a scope is inside it, one
\* commit or one rollback after.
C3_OneTransactionOneTerminal ==
    /\ \A o \in Ops :
          /\ \A i, j \in AtomicEntries(o) : stack[o][i].h = stack[o][j].h
          /\ AtomicEntries(o) # {} =>
                Cardinality({i \in AtomicEntries(o) : stack[o][i].owner}) = 1
          /\ \A i \in AtomicEntries(o) :
                /\ handles[stack[o][i].h].kind = "tx"
                /\ handles[stack[o][i].h].ends = 0
                /\ Cardinality({h \in DOMAIN handles :
                                   handles[h].op = o /\ handles[h].state = "open"
                                   /\ handles[h].kind = "tx"}) = 1
    /\ \A h \in DOMAIN handles :
          handles[h].kind = "tx" =>
             /\ handles[h].ends <= 1
             /\ handles[h].ends = 1 <=> handles[h].state \in {"committed", "rolledback"}
             /\ handles[h].ends = 0 <=> handles[h].state = "open"
             /\ handles[h].refs = 0 => handles[h].ends = 1

\* three atomic scopes nested on the only transaction the engine has begun
C3_Witness ==
    /\ Len(stack[1]) = MaxDepth
    /\ AtomicEntries(1) = 1 .. MaxDepth
    /\ Cardinality(DOMAIN handles) = 1
    /\ \A h \in DOMAIN handles : handles[h].refs = MaxDepth

\* handle h, a transaction some scope is inside of, gets its terminal action
Terminates(h) ==
    /\ handles[h].kind = "tx"
    /\ handles[h].state = "open"
    /\ handles'[h].state # "open"

\* C4: a shared transaction is open while its reference count is above zero;
\* its terminal action is taken by the activation that began it, on the exit
\* that brings the count to zero, and is a commit if no error is propagating
\* out of that activation and a rollback otherwise.
C4_TerminalByOwnerAtZero ==
    /\ [](\A h \in DOMAIN handles : handles[h].refs > 0 => handles[h].state = "open")
    /\ [][\A h \in DOMAIN handles :
             Terminates(h) =>
               LET o == handles[h].op IN
               /\ stack[o] # <<>>
               /\ Top(o).h = h /\ Top(o).owner /\ Top(o).type = "atomic"
               /\ Len(stack'[o]) = Len(stack[o]) - 1
               /\ handles[h].refs = 1 /\ handles'[h].refs = 0
               /\ handles'[h].ends = 1
               /\ handles'[h].state = IF err[o] = "none" THEN "committed" ELSE "rolledback"]_vars

\* a transaction that three nested scopes shared has been committed with a write
C4_Witness ==
    \E h \in DOMAIN handles :
        /\ handles[h].peak = MaxDepth /\ handles[h].refs = 0
        /\ handles[h].state = "committed" /\ handles[h].authors # {}
        /\ handles[h].authors \subseteq db.authors

\* C5: under every interleaving of the operations' engine calls, the handle
\* in an operation's ScopeContext and in each of its scope activations is one
\* that operation created, no handle executes a statement of another
\* operation, and an operation's ScopeContext changes only in that
\* operation's own scope entries and exits.
C5_ContextIsolated ==
    /\ [](\A o \in Ops :
            /\ ctx[o].h # NoHandle => handles[ctx[o].h].op = o
            /\ \A i \in 1 .. Len(stack[o]) : handles[stack[o][i].h].op = o
            /\ local[o].on # NoHandle => handles[local[o].on].op = o)
    /\ [](\A h \in DOMAIN handles : ~handles[h].shared)
    /\ [][\A o \in Ops : ctx'[o] # ctx[o] => stack'[o] # stack[o]]_vars

\* two operations inside scopes at the same time, each on its own handle, one
\* of them having written through it
C5_Witness ==
    \E a, b \in Ops :
        /\ a # b
        /\ ctx[a].h # NoHandle /\ ctx[b].h # NoHandle
        /\ ctx[a].h # ctx[b].h
        /\ handles[ctx[a].h].authors # {}
        /\ local[a].on = ctx[a].h

\* C6: while a handler that was given a handle runs, that handle is open and
\* has had no commit, rollback or close; every statement of the handler ran
\* on it and the operation opened no other handle; after both inserts of
\* create_book the author and the book are pending on that one transaction;
\* the handle is finalised once, when the caller that created it is left.
C6_ExplicitHandleLeftOpen ==
    \A o \in Ops :
        /\ InFlight(o) =>
              /\ tr[o] # NoHandle
              /\ handles[tr[o]].state = "open" /\ handles[tr[o]].ends = 0
              /\ local[o].ons \subseteq {tr[o]}
              /\ {h \in DOMAIN handles : handles[h].op = o} = {tr[o]}
              /\ (prog[o].fn = "create_book" /\ local[o].ret # None) =>
                    /\ Cardinality(handles[tr[o]].books) = 1
                    /\ NeedsAuthor(payload[o]) => Cardinality(handles[tr[o]].authors) = 1
        /\ pc[o] = "done" =>
              /\ handles[tr[o]].state =
                    (IF handles[tr[o]].kind = "conn" THEN "closed"
                     ELSE IF err[o] = "none" THEN "committed" ELSE "rolledback")
              /\ handles[tr[o]].ends <= 1
              /\ {h \in DOMAIN handles : handles[h].op = o} = {tr[o]}

\* app_3's create_book, given tr, has run both tx(tr, ...) calls: the author
\* and the book are pending on tr, which is still open
C6_Witness ==
    \E o \in Ops :
        /\ prog[o].app = 3 /\ prog[o].fn = "create_book"
        /\ pc[o] = "unwind" /\ local[o].ret # None
        /\ handles[tr[o]].state = "open"
        /\ handles[tr[o]].authors # {} /\ handles[tr[o]].books # {}
        /\ local[o].ons = {tr[o]}

DirectDone(o, fn) == prog[o].via = "direct" /\ prog[o].fn = fn /\ pc[o] = "done"

\* C7: get_stats called directly returns the same result through app_1,
\* app_2 and app_3 when the calls are made against the same committed rows,
\* and on empty tables that result is 0, 0, None, None.
C7_StatsAgree ==
    /\ \A a, b \in Ops :
          (DirectDone(a, "get_stats") /\ DirectDone(b, "get_stats")
             /\ local[a].snap = local[b].snap)
          => local[a].stats = local[b].stats
    /\ \A a \in Ops :
          (DirectDone(a, "get_stats") /\ local[a].snap = EmptyDb)
          => local[a].stats = [book_count |-> 0, author_count |-> 0,
                               max_book_id |-> None, max_author_id |-> None]

\* get_stats has returned through two different conventions, on the same
\* non-empty committed rows
C7_Witness ==
    \E a, b \in Ops :
        /\ DirectDone(a, "get_stats") /\ DirectDone(b, "get_stats")
        /\ prog[a].app = 1 /\ prog[b].app = 3
        /\ local[a].snap = local[b].snap /\ local[a].snap # EmptyDb
        /\ local[a].stats.book_count = 2 /\ local[a].stats.max_author_id = 1

\* C8 as stated: direct create_book calls with the same payload and the same
\* fault outcome leave the same number of author rows and of book rows,
\* whichever convention they go through.
C8_ConventionsPersistAlike ==
    \A a, b \in Ops :
        (DirectDone(a, "create_book") /\ DirectDone(b, "create_book")
           /\ payload[a] = payload[b] /\ local[a].fault = local[b].fault)
        => /\ Cardinality(AuthorsBy(a)) = Cardinality(AuthorsBy(b))
           /\ Cardinality(BooksBy(a)) = Cardinality(BooksBy(b))

\* C9 as stated: a direct create_book call of app_1 or app_3 persists its
\* author and its book together or not at all; a call that fails leaves no
\* author row.
C9_DirectCallAllOrNothing ==
    \A o \in Ops :
        (DirectDone(o, "create_book") /\ prog[o].app \in {1, 3})
        => /\ err[o] # "none" => (AuthorsBy(o) = {} /\ BooksBy(o) = {})
           /\ NeedsAuthor(payload[o]) =>
                 Cardinality(AuthorsBy(o)) = Cardinality(BooksBy(o))

\* C10: ax() called while the ScopeContext holds no atomic handle raises
\* ScopeError and changes nothing: no statement runs, no handle is opened,
\* the rows, the counters, the ScopeContext and the scopes stay as they were.
C10_AxOutsideAtomicFails ==
    [][\A o \in Ops :
          (call_ax(o) /\ ctx[o].kind # "Atomic")
          => /\ err'[o] = "ScopeError"
             /\ UNCHANGED <<db, seq, handles, ctx, stack>>]_vars

\* ax() has failed inside a non-atomic scope, whose connection is still open
C10_Witness ==
    \E o \in Ops :
        /\ err[o] = "ScopeError"
        /\ ctx[o].kind = "NonAtomic"
        /\ handles[ctx[o].h].state = "open" /\ handles[ctx[o].h].authors = {}
        /\ db = EmptyDb

\* C13: non_atomic() entered, or nax() called, while an atomic scope is
\* active opens no connection and runs on the atomic scope's transaction;
\* the nax() query sees the rows written earlier in that transaction, which
\* is still open.
C13_NonAtomicInsideAtomicReuses ==
    [][\A o \in Ops :
          /\ (non_atomic_enter(o) /\ ctx[o].kind = "Atomic")
             => /\ DOMAIN handles' = DOMAIN handles
                /\ stack'[o][Len(stack'[o])].h = ctx[o].h
                /\ ctx' = ctx
                /\ handles'[ctx[o].h].state = "open"
          /\ (call_nax(o) /\ ctx[o].kind = "Atomic")
             => /\ DOMAIN handles' = DOMAIN handles
                /\ local'[o].on = ctx[o].h
                /\ handles'[ctx[o].h].state = "open"
                /\ local'[o].seen =
                      Cardinality(db.authors \cup handles[ctx[o].h].authors)]_vars

\* inside non_atomic() inside atomic(), nax() has counted an author that the
\* open transaction wrote and nothing has committed
C13_Witness ==
    /\ Len(stack[1]) = 2
    /\ stack[1][1].type = "atomic" /\ stack[1][2].type = "non_atomic"
    /\ stack[1][1].h = stack[1][2].h
    /\ local[1].on = ctx[1].h /\ local[1].seen = 1
    /\ db = EmptyDb
    /\ Cardinality(DOMAIN handles) = 1

\* C14: atomic() entered while only a non-atomic scope is active begins a
\* transaction on a new handle; entering and leaving it leave the outer plain
\* connection as it was, open, and the statements inside it touch no other
\* handle than the new transaction.
C14_AtomicInsideNonAtomicUpgrades ==
    [][\A o \in Ops :
          /\ (atomic_enter(o) /\ ctx[o].kind = "NonAtomic")
             => LET h == ctx'[o].h IN
                /\ h \notin DOMAIN handles
                /\ DOMAIN handles' = DOMAIN handles \cup {h}
                /\ handles'[h].kind = "tx" /\ handles'[h].state = "open"
                /\ ctx'[o].kind = "Atomic"
                /\ stack'[o][Len(stack'[o])].owner
                /\ handles'[ctx[o].h] = handles[ctx[o].h]
                /\ handles[ctx[o].h].state = "open"
          /\ (atomic_exit(o) /\ Top(o).owner /\ Top(o).prev.kind = "NonAtomic")
             => /\ handles'[Top(o).prev.h] = handles[Top(o).prev.h]
                /\ handles[Top(o).prev.h].state = "open"
                /\ handles[Top(o).prev.h].kind = "conn"
                /\ handles'[Top(o).h].state # "open"
                /\ ctx'[o] = Top(o).prev
          /\ ((call_ax(o) \/ call_atx(o) \/ call_nax(o)) /\ ctx[o].kind = "Atomic")
             => /\ local'[o].on = ctx[o].h
                /\ \A g \in DOMAIN handles : g # ctx[o].h => handles'[g] = handles[g]]_vars

\* back in the non-atomic scope, whose connection is open and unwritten, after
\* an atomic scope inside it committed a write on a transaction of its own
C14_Witness ==
    /\ Len(stack[1]) = 1 /\ stack[1][1].type = "non_atomic" /\ stack[1][1].owner
    /\ ctx[1] = [h |-> stack[1][1].h, kind |-> "NonAtomic"]
    /\ handles[ctx[1].h].state = "open" /\ handles[ctx[1].h].kind = "conn"
    /\ handles[ctx[1].h].refs = 1
    /\ \E t \in DOMAIN handles :
          /\ handles[t].kind = "tx" /\ handles[t].state = "committed"
          /\ handles[t].authors # {} /\ handles[t].authors \subseteq db.authors

\* C16: nax() called with no scope active opens one plain connection, runs
\* its query on it and has closed it when it returns; a non-atomic scope that
\* owns its connection closes it on exit, with or without an error, and no
\* plain connection is ever committed or rolled back.
C16_PlainConnectionsOnlyReleased ==
    /\ [][\A o \in Ops :
             /\ (call_nax(o) /\ ctx[o].h = NoHandle)
                => /\ DOMAIN handles' = DOMAIN handles \cup {local'[o].on}
                   /\ local'[o].on \notin DOMAIN handles
                   /\ handles'[local'[o].on].kind = "conn"
                   /\ handles'[local'[o].on].state = "closed"
                   /\ ctx' = ctx /\ db' = db
             /\ (non_atomic_exit(o) /\ Top(o).owner)
                => /\ handles'[Top(o).h].state = "closed"
                   /\ handles'[Top(o).h].ends = 0
                   /\ db' = db]_vars
    /\ [](\A h \in DOMAIN handles :
             handles[h].kind = "conn"
             => /\ handles[h].ends = 0
                /\ handles[h].state \in {"open", "closed"}
                /\ handles[h].refs = 0 => handles[h].state = "closed")

\* a connection nax() opened for one query and a connection a non-atomic scope
\* owned are both closed, the scope having been left by an error
C16_Witness ==
    /\ stack[1] = <<>> /\ err[1] = "BusinessError"
    /\ \E g, h \in DOMAIN handles :
          /\ handles[g].kind = "conn" /\ handles[g].state = "closed" /\ handles[g].peak = 0
          /\ handles[h].kind = "conn" /\ handles[h].state = "closed" /\ handles[h].peak = 1

\* C15: atx() called inside an atomic scope runs on the scope's transaction
\* and begins none; called with no atomic scope active it begins one
\* transaction, runs its statement on it and has committed it when it
\* returns, or rolled it back when the statement failed, and it leaves the
\* ScopeContext and the scopes as they were.
C15_AtxReusesOrOneShot ==
    [][\A o \in Ops :
          /\ ((call_atx(o) \/ call_atx_failing(o)) /\ ctx[o].kind = "Atomic")
             => /\ DOMAIN handles' = DOMAIN handles
                /\ local'[o].on = ctx[o].h
                /\ handles'[ctx[o].h].state = "open"
                /\ db' = db
                /\ ctx' = ctx /\ stack' = stack
          /\ ((call_atx(o) \/ call_atx_failing(o)) /\ ctx[o].kind # "Atomic")
             => LET h == local'[o].on IN
                /\ h \notin DOMAIN handles
                /\ DOMAIN handles' = DOMAIN handles \cup {h}
                /\ handles'[h].kind = "tx" /\ handles'[h].ends = 1
                /\ \A g \in DOMAIN handles : handles'[g] = handles[g]
                /\ ctx' = ctx /\ stack' = stack
                /\ IF err'[o] = "none"
                   THEN /\ handles'[h].state = "committed"
                        /\ Cardinality(handles'[h].authors) = 1
                        /\ db'.authors = db.authors \cup handles'[h].authors
                   ELSE /\ handles'[h].state = "rolledback"
                        /\ db' = db]_vars

\* inside a non-atomic scope, one atx() has committed its own transaction and
\* a second, whose statement failed, has rolled its own back
C15_Witness ==
    /\ Len(stack[1]) = 1 /\ ctx[1].kind = "NonAtomic"
    /\ handles[ctx[1].h].state = "open"
    /\ err[1] = "EngineError"
    /\ \E g, h \in DOMAIN handles :
          /\ handles[g].kind = "tx" /\ handles[g].state = "committed"
          /\ handles[g].peak = 0 /\ handles[g].authors = db.authors /\ db.authors # {}
          /\ handles[h].kind = "tx" /\ handles[h].state = "rolledback"
          /\ handles[h].peak = 0 /\ local[1].on = h

InCallerScope(o) == ByCaller(o) /\ stack[o] # <<>>

\* the handle of the scope the caller of operation o is inside of
Ambient(o) == stack[o][1].h

\* the rows the caller of operation o wrote in its scope before the call
CallerWrites(o) == IF local[o].seen = None THEN {} ELSE {local[o].seen}

\* C11: create_book of app_3 (tx) or app_2 (@transact) given a plain
\* connection as tr raises ScopeError and runs no statement on it or on any
\* other handle, whether or not the caller is inside an atomic scope; the
\* connection and the committed rows stay as they were.
C11_PlainHandleRefused ==
    \A o \in Ops :
        (ByCaller(o) /\ prog[o].pass = "conn" /\ prog[o].fn = "create_book"
           /\ prog[o].app \in {2, 3} /\ pc[o] \notin {"idle", "done"})
        => /\ handles[tr[o]].kind = "conn"
           /\ handles[tr[o]].authors = {} /\ handles[tr[o]].books = {}
           /\ handles[tr[o]].state = "open"
           /\ local[o].ons \subseteq {NoHandle}
           /\ local[o].ret = None
           /\ db = local[o].snap
           /\ InCallerScope(o) =>
                 /\ handles[Ambient(o)].authors = CallerWrites(o)
                 /\ handles[Ambient(o)].books = {}
           /\ pc[o] \in {"unwind", "leave"} => err[o] = "ScopeError"

\* inside an atomic scope in which the caller has written an author, app_3's
\* create_book was given a plain connection and its tx() has raised ScopeError
C11_Witness ==
    /\ ByCaller(1) /\ prog[1].app = 3 /\ prog[1].fn = "create_book"
    /\ prog[1].pass = "conn" /\ prog[1].scope = "atomic"
    /\ pc[1] = "unwind" /\ err[1] = "ScopeError"
    /\ ctx[1].kind = "Atomic" /\ handles[ctx[1].h].authors # {}
    /\ handles[tr[1]].state = "open" /\ handles[tr[1]].authors = {}

\* C12: while the caller is inside a scope, every x(conn, ...) / tx(tr, ...)
\* of an app_3 handler that was passed a handle runs on the passed handle,
\* which is not the scope's: the scope's handle keeps exactly what the caller
\* wrote, the inserts are pending on the passed transaction, and the counts
\* read are those of the passed handle, not of the scope.
C12_ExplicitHandleWins ==
    \A o \in Ops :
        (ByCaller(o) /\ prog[o].app = 3 /\ prog[o].pass # "none" /\ InCallerScope(o)
           /\ ~(prog[o].fn = "create_book" /\ prog[o].pass = "conn"))
        => /\ Ambient(o) # tr[o]
           /\ local[o].ons \subseteq {tr[o]}
           /\ handles[Ambient(o)].authors = CallerWrites(o)
           /\ handles[Ambient(o)].books = {}
           /\ handles[Ambient(o)].state = "open"
           /\ local[o].ret # None =>
                 /\ Cardinality(handles[tr[o]].books) = 1
                 /\ NeedsAuthor(payload[o]) => handles[tr[o]].authors = {local[o].author_id}
           /\ (prog[o].fn = "get_stats" /\ pc[o] \in {"q2", "q3", "q4", "unwind", "leave"})
              => local[o].stats.author_count =
                    Cardinality(db.authors \cup handles[tr[o]].authors)

\* get_stats of app_3, passed a transaction of the caller's while the caller's
\* atomic scope holds an uncommitted author, has counted no author
C12_Witness ==
    /\ ByCaller(1) /\ prog[1].app = 3 /\ prog[1].fn = "get_stats"
    /\ prog[1].pass = "tx" /\ prog[1].scope = "atomic"
    /\ pc[1] = "unwind"
    /\ handles[ctx[1].h].authors # {} /\ ctx[1].h # tr[1]
    /\ local[1].stats.author_count = 0 /\ local[1].stats.max_author_id = None
    /\ local[1].ons = {tr[1]}

\* C17 as stated: get_stats through x() (app_3) or @connect (app_2) raises
\* nothing, and each of its statements runs on the connection it was passed,
\* else on the handle of the scope its caller is inside of, else on a plain
\* connection newly opened for it.
C17_EitherNeverFails ==
    \A o \in Ops :
        (ByCaller(o) /\ prog[o].fn = "get_stats" /\ prog[o].app \in {2, 3}
           /\ pc[o] \in {"q1", "q2", "q3", "q4", "unwind"})
        => /\ err[o] = "none"
           /\ \A h \in local[o].ons :
                 IF prog[o].pass # "none" THEN h = tr[o]
                 ELSE IF InCallerScope(o) THEN h = Ambient(o)
                 ELSE handles[h].kind = "conn" /\ handles[h].op = o

\* C18 as stated: @transact / @connect called with no handle passed supplies
\* the handle of the ambient scope when one is active and opens nothing, and
\* opens a new handle only when no scope is active.
C18_AdapterSuppliesAmbient ==
    [][\A o \in Ops :
          ((transact_enter(o) \/ connect_enter(o)) /\ tr[o] = NoHandle)
          => IF Get(o).h # NoHandle
             THEN tr'[o] = Get(o).h /\ DOMAIN handles' = DOMAIN handles
             ELSE /\ tr'[o] \notin DOMAIN handles
                  /\ DOMAIN handles' = DOMAIN handles \cup {tr'[o]}]_vars

\* handle h was opened by a scope, a dependency, an adapter or a caller's
\* engine.begin() block of operation o, and not for one statement only
HeldBy(o, h) == handles[h].op = o /\ (handles[h].peak > 0 \/ h = tr[o])

\* C19: a handle gets at most one terminal action, a commit or a rollback
\* for a transaction and a close for a plain connection; every operation
\* ends, whether it returns, raises or is cancelled, and then no handle is
\* open; the transactions held by a cancelled operation are rolled back.
C19_EveryHandleFinalisedOnce ==
    /\ [](\A h \in DOMAIN handles :
            /\ handles[h].ends <= 1
            /\ handles[h].kind = "conn" =>
                  handles[h].ends = 0 /\ handles[h].state \in {"open", "closed"}
            /\ handles[h].kind = "tx" =>
                  /\ handles[h].state \in {"open", "committed", "rolledback"}
                  /\ handles[h].ends = 0 <=> handles[h].state = "open")
    /\ <>[](/\ \A o \in Ops : pc[o] = "done"
            /\ \A h \in DOMAIN handles : handles[h].state # "open")
    /\ [](\A o \in Ops :
            (pc[o] = "done" /\ err[o] = "Cancelled")
            => \A h \in DOMAIN handles :
                  (HeldBy(o, h) /\ handles[h].kind = "tx")
                  => handles[h].state = "rolledback")

\* a call cancelled at a statement has ended: the connection it was passed is
\* closed and the transaction of its caller's scope, which held a write, is
\* rolled back
C19_Witness ==
    /\ pc[1] = "done" /\ err[1] = "Cancelled"
    /\ \E c, t \in DOMAIN handles :
          /\ handles[c].kind = "conn" /\ handles[c].state = "closed"
          /\ handles[t].kind = "tx" /\ handles[t].state = "rolledback"
          /\ handles[t].authors # {}
    /\ \A h \in DOMAIN handles : handles[h].state # "open"
    /\ db = EmptyDb

\* the requests whose random.choice([True, False]) came out True
Faulted == {o \in Ops : local[o].fault}

LeavesScope(o) == stack[o] # <<>> /\ stack'[o] = SubSeq(stack[o], 1, Len(stack[o]) - 1)

\* the ScopeContext kind under which a handle of kind k is ambient
KindOf(k) == IF k = "tx" THEN "Atomic" ELSE "NonAtomic"

\* C22: when an atomic or non-atomic scope is left, normally or by an error,
\* the ScopeContext is again what it was just before the matching entry: the
\* enclosing scope's handle and kind when a scope encloses it, and empty
\* otherwise.
C22_ContextRestoredOnExit ==
    [][\A o \in Ops :
          LeavesScope(o) =>
              /\ ctx'[o] = Top(o).prev
              /\ stack'[o] = <<>> => ctx'[o] = NoCtx
              /\ stack'[o] # <<>> =>
                    LET e == stack'[o][Len(stack'[o])] IN
                    /\ ctx'[o].h = e.h
                    /\ ctx'[o].kind = KindOf(handles[e.h].kind)
                    /\ handles'[e.h].state = "open"]_vars

\* an atomic scope nested in a non-atomic one was left by an error: its
\* transaction is rolled back and the outer plain connection is ambient again
C22_Witness ==
    /\ Len(stack[1]) = 1 /\ stack[1][1].type = "non_atomic"
    /\ ctx[1] = [h |-> stack[1][1].h, kind |-> "NonAtomic"]
    /\ handles[stack[1][1].h].state = "open"
    /\ err[1] = "BusinessError"
    /\ \E h \in DOMAIN handles :
          handles[h].kind = "tx" /\ handles[h].peak > 0 /\ handles[h].state = "rolledback"

\* the handles the engine opened for operation o
HandlesOf(o) == {h \in DOMAIN handles : handles[h].op = o}

\* C23: a request to the middleware application runs inside one atomic scope,
\* the one transaction_middleware opened: the engine begins one transaction
\* for it, every db.run of the handler executes on that transaction, and when
\* the request is over the transaction is committed with its rows if the
\* handler returned, and rolled back with the author insert undone if
\* create_book raised.
C23_OneScopePerRequest ==
    \A o \in Ops :
        prog[o].via = "middleware" =>
            /\ Cardinality(HandlesOf(o)) <= 1
            /\ InFlight(o) =>
                  /\ Len(stack[o]) = 1 /\ stack[o][1].type = "atomic" /\ stack[o][1].owner
                  /\ HandlesOf(o) = {stack[o][1].h}
                  /\ ctx[o] = [h |-> stack[o][1].h, kind |-> "Atomic"]
            /\ \A h \in HandlesOf(o) :
                  /\ handles[h].kind = "tx" /\ handles[h].peak = 1
                  /\ local[o].ons \subseteq {h}
                  /\ InFlight(o) => handles[h].state = "open"
                  /\ (pc[o] = "done" /\ err[o] = "none") =>
                        /\ handles[h].state = "committed"
                        /\ handles[h].authors \subseteq db.authors
                        /\ handles[h].books \subseteq db.books
                  /\ (pc[o] = "done" /\ err[o] # "none") =>
                        /\ handles[h].state = "rolledback"
                        /\ handles[h].authors \cap db.authors = {}
                        /\ handles[h].books \cap db.books = {}
            /\ pc[o] = "done" => stack[o] = <<>> /\ HandlesOf(o) # {}

\* one request's create_book raised after its author insert and was rolled
\* back, while another request committed its author and its book
C23_Witness ==
    \E a, b \in Ops :
        /\ prog[a].via = "middleware" /\ prog[b].via = "middleware"
        /\ pc[a] = "done" /\ err[a] = "BusinessError" /\ local[a].author_id # None
        /\ local[a].author_id \notin db.authors
        /\ pc[b] = "done" /\ err[b] = "none" /\ local[b].fault = FALSE
        /\ local[b].author_id \in db.authors
        /\ \E k \in db.books : k.id = local[b].ret /\ k.author_id = local[b].author_id

\* operation o is a POST /books request to app_2 or app_3
PostsBook(o) ==
    prog[o].via = "http" /\ prog[o].fn = "create_book" /\ prog[o].app \in {2, 3}

\* C24: for a POST /books request to app_2 or app_3 the engine begins one
\* transaction, the one of db.transaction_dependency: both inserts of
\* create_book execute on it, it is committed when the handler returns and
\* rolled back when the handler raises, and neither @transact nor tx()
\* begins another one.
C24_OneTransactionPerPost ==
    \A o \in Ops :
        PostsBook(o) =>
            /\ pc[o] = "idle" => HandlesOf(o) = {}
            /\ pc[o] # "idle" =>
                  /\ HandlesOf(o) = {tr[o]}
                  /\ handles[tr[o]].kind = "tx"
                  /\ ~local[o].own
                  /\ local[o].ons \subseteq {tr[o]}
                  /\ InFlight(o) => handles[tr[o]].state = "open"
                  /\ (pc[o] = "done" /\ err[o] = "none") =>
                        /\ handles[tr[o]].state = "committed"
                        /\ local[o].ret # None
                        /\ handles[tr[o]].authors \subseteq db.authors
                        /\ handles[tr[o]].books \subseteq db.books
                  /\ (pc[o] = "done" /\ err[o] # "none") =>
                        /\ handles[tr[o]].state = "rolledback"
                        /\ handles[tr[o]].authors \cap db.authors = {}
                        /\ handles[tr[o]].books \cap db.books = {}

\* a request to app_2 was rolled back after its author insert and a request
\* to app_3 committed its two inserts, each on its dependency's transaction
C24_Witness ==
    \E a, b \in Ops :
        /\ PostsBook(a) /\ prog[a].app = 2 /\ pc[a] = "done"
        /\ err[a] = "BusinessError" /\ handles[tr[a]].authors # {}
        /\ PostsBook(b) /\ prog[b].app = 3 /\ pc[b] = "done" /\ err[b] = "none"
        /\ handles[tr[b]].authors # {} /\ handles[tr[b]].books # {}
        /\ handles[tr[b]].books \subseteq db.books

\* operation o is inside the body of its handler
InBody(o) == pc[o] \in {"enter", "author", "fault", "book", "q1", "q2", "q3", "q4"}

\* the handles a statement or a scope entry of operation o can resolve to:
\* the ambient one, those of the scopes it is inside of, and the connection
\* its handler was given, while the handler runs
Resolvable(o) ==
    ({ctx[o].h} \cup {stack[o][i].h : i \in 1 .. Len(stack[o])}
        \cup (IF InBody(o) THEN {tr[o]} ELSE {})) \ {NoHandle}

\* the statement of this step ran on handle h, or wrote its rows on it
RanOn(o, h) ==
    \/ handles'[h].authors # handles[h].authors
    \/ handles'[h].books # handles[h].books
    \/ (local'[o].on = h /\ local[o].on # h)

\* C25: no statement is executed on a handle that has been committed, rolled
\* back or closed: every handle that an executor call or a nested scope
\* entry of a running operation can resolve to is open, and every statement
\* runs on a handle that was open, or on one opened for that statement.
C25_NoStatementOnFinishedHandle ==
    /\ [](\A o \in Ops : \A h \in Resolvable(o) : handles[h].state = "open")
    /\ [][\A o \in Ops : \A h \in DOMAIN handles :
             RanOn(o, h) => handles[h].state = "open"]_vars

\* the scripted operation left a scope whose handle is finished, and later
\* executed a statement on a handle opened after it; the request next to it
\* is over and its handle is finished too
C25_Witness ==
    /\ \E g, h \in DOMAIN handles :
          /\ handles[g].op = 1 /\ handles[g].peak > 0 /\ handles[g].state # "open"
          /\ handles[h].op = 1 /\ h > g /\ local[1].on = h
    /\ pc[2] = "done"
    /\ \A h \in DOMAIN handles : handles[h].op = 2 => handles[h].state # "open"
    /\ \E h \in DOMAIN handles : handles[h].op = 2

\* C26: while POST /books requests that give an author_name and no author_id
\* are the only writers, the committed rows hold at every moment, and not
\* only once the requests are over, as many authors as books, and every
\* committed author has its book; a GET /stats request running next to them
\* never counts more authors than books.
C26_CommittedAuthorsHaveBooks ==
    /\ Cardinality(db.authors) = Cardinality(db.books)
    /\ \A a \in db.authors : \E b \in db.books : b.author_id = a
    /\ \A o \in Ops :
          (/\ prog[o].fn = "get_stats"
           /\ local[o].stats.author_count # None
           /\ local[o].stats.book_count # None) =>
              local[o].stats.author_count <= local[o].stats.book_count

\* a GET /stats request counted the authors before a POST /books request
\* committed and the books after it: the rows that request committed are
\* its author together with its book
C26_Witness ==
    \E w, r \in Ops :
        /\ prog[w].fn = "create_book" /\ pc[w] = "done" /\ err[w] = "none"
        /\ prog[r].fn = "get_stats" /\ InFlight(r)
        /\ local[r].stats.author_count = 0 /\ local[r].stats.book_count = 1
        /\ db.authors = handles[tr[w]].authors /\ db.books = handles[tr[w]].books

====
